---- MODULE Spec2Model ----
(***************************************************************************)
(* Pedestrian simulation kernel (Moussaid et al. 2011 replication):        *)
(* vector/geometry primitives, vision function f(alpha), the two           *)
(* heuristics, the contact-force model and Simulation.step().              *)
(*                                                                         *)
(* Numbers.  A JavaScript number is modelled as a fixed-point value with   *)
(* Scale units per 1.0 (12 stands for 0.12).  Every product, quotient and  *)
(* square root is rounded to that grid, as the code's results are rounded  *)
(* to the nearest double.  Angles are integer degrees on a 15-degree grid  *)
(* (PI is 180); cos and sin are the rounded table values, atan2 returns    *)
(* the nearest grid angle.  The thresholds 1e-10 and 1e-6 of the code lie  *)
(* strictly between 0 and one grid unit: "x > 1e-10" is x > 0 on the grid  *)
(* and "x < 1e-10" is x < 1.                                               *)
(***************************************************************************)
EXTENDS Integers, Sequences, FiniteSets, TLC

VARIABLES pedestrians, environment, params, time, callbacks, evacuatedCount,
          nextId, pre, forces, headings, hookLog, placement, controls, probe

vars == <<pedestrians, environment, params, time, callbacks, evacuatedCount,
          nextId, pre, forces, headings, hookLog, placement, controls, probe>>

simVars == <<pedestrians, environment, params, time, callbacks, evacuatedCount,
             nextId, pre, forces, headings, hookLog, placement, controls>>

----------------------------------------------------------------------------
(* Fixed-point arithmetic *)

Scale == 100

Abs(x) == IF x < 0 THEN -x ELSE x

Sgn(x) == IF x < 0 THEN -1 ELSE IF x > 0 THEN 1 ELSE 0

Min2(a, b) == IF a <= b THEN a ELSE b

Max2(a, b) == IF a >= b THEN a ELSE b

\* n / d rounded to the nearest integer, halves away from zero
RoundDiv(n, d) == Sgn(n) * Sgn(d) * ((2 * Abs(n) + Abs(d)) \div (2 * Abs(d)))

\* a * b on the grid
Mul(a, b) == RoundDiv(a * b, Scale)

\* a / b on the grid (b # 0)
Div(a, b) == RoundDiv(a * Scale, b)

RECURSIVE ISqrtIter(_, _, _)
ISqrtIter(n, lo, hi) ==
  IF lo >= hi THEN lo
  ELSE LET mid == (lo + hi + 1) \div 2
       IN  IF mid * mid <= n THEN ISqrtIter(n, mid, hi)
           ELSE ISqrtIter(n, lo, mid - 1)

\* largest r with r * r <= n
ISqrt(n) == IF n <= 0 THEN 0 ELSE ISqrtIter(n, 0, Min2(n, 46340))

\* Math.sqrt on the grid
Sqrt(a) == ISqrt(a * Scale)

\* Math.ceil(a / b) for a >= 0, b > 0
CeilDiv(a, b) == (a + b - 1) \div b

\* "x > 1e-10" and "x < 1e-10" (also 1e-6) on the grid
AboveEps(x) == x > 0

BelowEps(x) == x < 1

----------------------------------------------------------------------------
(* Angles: integer degrees, multiples of AngleGrid *)

PI == 180

AngleGrid == 15

CosTable == <<100, 97, 87, 71, 50, 26, 0>>

\* Math.cos
Cos(a) ==
  LET m == a % 360
  IN  IF m <= 90 THEN CosTable[(m \div AngleGrid) + 1]
      ELSE IF m <= 180 THEN -CosTable[((180 - m) \div AngleGrid) + 1]
      ELSE IF m <= 270 THEN -CosTable[((m - 180) \div AngleGrid) + 1]
      ELSE CosTable[((360 - m) \div AngleGrid) + 1]

\* Math.sin
Sin(a) == Cos(a - 90)

GridAngles == {a \in (-PI + 1)..PI : a % AngleGrid = 0}

----------------------------------------------------------------------------
(* utils/vector.ts *)

Vec(x, y) == [x |-> x, y |-> y]

zero == Vec(0, 0)

add(a, b) == Vec(a.x + b.x, a.y + b.y)

sub(a, b) == Vec(a.x - b.x, a.y - b.y)

scale(v, s) == Vec(Mul(v.x, s), Mul(v.y, s))

dot(a, b) == Mul(a.x, b.x) + Mul(a.y, b.y)

\* sqrt(x*x + y*y): the exact sum of squares, one rounding
length(v) == ISqrt(v.x * v.x + v.y * v.y)

distance(a, b) == length(sub(a, b))

\* vec2.scale(v, 1 / d): each component divided by d, one rounding
scaleInv(v, d) == Vec(Div(v.x, d), Div(v.y, d))

lengthSquared(v) == Mul(v.x, v.x) + Mul(v.y, v.y)

normalize(v) ==
  LET len == length(v)
  IN  IF AboveEps(len) THEN scaleInv(v, len) ELSE zero

\* Math.atan2(v.y, v.x): the grid angle whose direction is nearest to v
angle(v) ==
  IF v.x = 0 /\ v.y = 0 THEN 0
  ELSE LET score(a) == v.x * Cos(a) + v.y * Sin(a)
           best == {a \in GridAngles : \A b \in GridAngles : score(a) >= score(b)}
       IN  CHOOSE a \in best : \A b \in best : Abs(a) <= Abs(b) /\ (Abs(a) = Abs(b) => a >= b)

fromAngle(a, magnitude) == Vec(Mul(Cos(a), magnitude), Mul(Sin(a), magnitude))

perpendicular(v) == Vec(-v.y, v.x)

----------------------------------------------------------------------------
(* utils/geometry.ts *)

lineFromPoints(p1, p2) ==
  LET dx == p2.x - p1.x
      dy == p2.y - p1.y
      a == -dy
      b == dx
      c == -(Mul(a, p1.x) + Mul(b, p1.y))
      len == ISqrt(a * a + b * b)
  IN  IF BelowEps(len) THEN [a |-> 0, b |-> 0, c |-> 0]
      ELSE [a |-> Div(a, len), b |-> Div(b, len), c |-> Div(c, len)]

\* t = dot(toPoint, seg) / segLenSq is kept as the exact fraction dotP / segLenSq
\* and seg * t is rounded once
closestPointOnSegment(point, segStart, segEnd) ==
  LET seg == sub(segEnd, segStart)
      segLenSq == seg.x * seg.x + seg.y * seg.y
      toPoint == sub(point, segStart)
      dotP == toPoint.x * seg.x + toPoint.y * seg.y
  IN  IF BelowEps(segLenSq) THEN segStart
      ELSE IF dotP <= 0 THEN segStart
      ELSE IF dotP >= segLenSq THEN segEnd
      ELSE add(segStart, Vec(RoundDiv(seg.x * dotP, segLenSq),
                             RoundDiv(seg.y * dotP, segLenSq)))

distanceToSegment(point, segStart, segEnd) ==
  distance(point, closestPointOnSegment(point, segStart, segEnd))

normalFromSegmentToPoint(point, segStart, segEnd) ==
  LET closest == closestPointOnSegment(point, segStart, segEnd)
      toPoint == sub(point, closest)
      len == length(toPoint)
  IN  IF BelowEps(len) THEN normalize(perpendicular(sub(segEnd, segStart)))
      ELSE scaleInv(toPoint, len)

RECURSIVE wrapUp(_, _, _)
wrapUp(value, min, range) ==
  IF value < min THEN wrapUp(value + range, min, range) ELSE value

RECURSIVE wrapDown(_, _, _)
wrapDown(value, max, range) ==
  IF value >= max THEN wrapDown(value - range, max, range) ELSE value

\* variant: values at or above max are not brought back
wrapValue_NoUpperLoop(value, min, max) ==
  LET range == max - min
  IN  IF range <= 0 THEN value ELSE wrapUp(value, min, range)

wrapValue(value, min, max) ==
  LET range == max - min
  IN  IF range <= 0 THEN value
      ELSE wrapDown(wrapUp(value, min, range), max, range)

wrapPosition(position, bounds) ==
  Vec(wrapValue(position.x, bounds.xMin, bounds.xMax),
      wrapValue(position.y, bounds.yMin, bounds.yMax))

\* dx > rangeX / 2 is compared as 2 * dx > rangeX (no rounding of the half)
periodicDisplacement(from, to, bounds) ==
  LET rangeX == bounds.xMax - bounds.xMin
      rangeY == bounds.yMax - bounds.yMin
      dx0 == to.x - from.x
      dy0 == to.y - from.y
      dx == IF 2 * dx0 > rangeX THEN dx0 - rangeX
            ELSE IF 2 * dx0 < -rangeX THEN dx0 + rangeX ELSE dx0
      dy == IF 2 * dy0 > rangeY THEN dy0 - rangeY
            ELSE IF 2 * dy0 < -rangeY THEN dy0 + rangeY ELSE dy0
  IN  Vec(dx, dy)

----------------------------------------------------------------------------
(* simulation/environment.ts *)

createWall(start, end) ==
  LET line == lineFromPoints(start, end)
  IN  [start |-> start, end |-> end, a |-> line.a, b |-> line.b, c |-> line.c,
       normal |-> Vec(line.a, line.b)]

createCorridor(len, width) ==
  LET halfWidth == width \div 2
      halfLength == len \div 2
  IN  << createWall(Vec(-halfLength, halfWidth), Vec(halfLength, halfWidth)),
         createWall(Vec(halfLength, -halfWidth), Vec(-halfLength, -halfWidth)) >>

\* doorPosition = 'right'
createCorridorWithDoor(len, width, doorWidth) ==
  LET halfWidth == width \div 2
      halfLength == len \div 2
      halfDoor == doorWidth \div 2
  IN  << createWall(Vec(-halfLength, halfWidth), Vec(halfLength, halfWidth)),
         createWall(Vec(halfLength, -halfWidth), Vec(-halfLength, -halfWidth)),
         createWall(Vec(-halfLength, -halfWidth), Vec(-halfLength, halfWidth)),
         createWall(Vec(halfLength, halfWidth), Vec(halfLength, halfDoor)),
         createWall(Vec(halfLength, -halfDoor), Vec(halfLength, -halfWidth)) >>

createEnvironment(walls, bounds, boundaryType) ==
  [walls |-> walls, boundaryType |-> boundaryType, bounds |-> bounds]

----------------------------------------------------------------------------
(* simulation/pedestrian.ts *)

\* variant: every pedestrian gets the radius of an 80 kg body
createPedestrian_FixedRadius(id, options) ==
  [id |-> id,
   position |-> options.position,
   velocity |-> options.velocity,
   mass |-> options.mass,
   radius |-> 25,
   desiredSpeed |-> options.desiredSpeed,
   destination |-> options.destination,
   direction |-> options.direction,
   active |-> TRUE]

\* createPedestrian with every option given; id is the value of nextId
createPedestrian(id, options) ==
  [id |-> id,
   position |-> options.position,
   velocity |-> options.velocity,
   mass |-> options.mass,
   radius |-> Div(options.mass, 320 * Scale),
   desiredSpeed |-> options.desiredSpeed,
   destination |-> options.destination,
   direction |-> options.direction,
   active |-> TRUE]

\* variant: ten times as many attempts are allowed
maxAttempts_Tenfold(count) == count * 1000

\* createPedestriansInArea: const maxAttempts = count * 100
maxAttempts(count) == count * 100

\* the while condition of createPedestriansInArea
placing(pl) ==
  Len(pl.pedestrians) < pl.count /\ pl.attempts < maxAttempts(pl.count)

\* the overlap test of one attempt against the pedestrians placed so far
overlapsPlaced(position, radius, placed) ==
  \E k \in 1..Len(placed) :
    distance(position, placed[k].position) < radius + placed[k].radius + 5

\* the pedestrian one successful attempt creates: mass is options.uniformMass
\* or, when that is undefined, the draw createPedestrian makes itself
placedPedestrian(pl, id, position, bodyMass, speedSample) ==
  createPedestrian(id,
    [position |-> position,
     destination |-> Vec(pl.bounds.xMax + 200, 0),
     velocity |-> zero,
     mass |-> IF pl.uniformMass = <<>> THEN bodyMass ELSE pl.uniformMass[1],
     desiredSpeed |-> Max2(50, speedSample),
     direction |-> 1])

\* one pass of the while loop of createPedestriansInArea.  position, checkMass
\* and speedSample are the random draws of the pass; checkMass is used only
\* when options.uniformMass is undefined (the empty sequence), and so is
\* bodyMass
placeAttempt(pl, id, position, checkMass, bodyMass, speedSample) ==
  IF overlapsPlaced(position,
                    Div(IF pl.uniformMass = <<>> THEN checkMass
                        ELSE pl.uniformMass[1], 320 * Scale),
                    pl.pedestrians)
  THEN [pl EXCEPT !.attempts = @ + 1]
  ELSE [pl EXCEPT !.attempts = @ + 1,
                  !.pedestrians =
                     Append(@, placedPedestrian(pl, id, position, bodyMass, speedSample))]

----------------------------------------------------------------------------
(* simulation/physics.ts *)

RECURSIVE SumVec(_)
SumVec(seq) == IF seq = <<>> THEN zero ELSE add(Head(seq), SumVec(Tail(seq)))

\* variant: the active flags of the two agents are not looked at
pairForce_IgnoresActive(pi, pj, prm, bounds, periodic) ==
  LET delta == IF periodic THEN periodicDisplacement(pj.position, pi.position, bounds)
               ELSE sub(pi.position, pj.position)
      dist == length(delta)
      overlap == pi.radius + pj.radius - dist
  IN  IF overlap > 0
      THEN LET normal == IF AboveEps(dist) THEN scaleInv(delta, dist) ELSE Vec(Scale, 0)
               forceMag == Mul(prm.k, overlap)
           IN  scale(normal, forceMag)
      ELSE zero

\* the force of one pass of the inner loop of computeContactForces for the
\* pair (i, j), i < j: added to forces[i], subtracted from forces[j]
pairForce(pi, pj, prm, bounds, periodic) ==
  LET delta == IF periodic THEN periodicDisplacement(pj.position, pi.position, bounds)
               ELSE sub(pi.position, pj.position)
      dist == length(delta)
      overlap == pi.radius + pj.radius - dist
  IN  IF pi.active /\ pj.active /\ overlap > 0
      THEN LET normal == IF AboveEps(dist) THEN scaleInv(delta, dist) ELSE Vec(Scale, 0)
               forceMag == Mul(prm.k, overlap)
           IN  scale(normal, forceMag)
      ELSE zero

\* variant: the force is directed along the wall's own normal (a, b), turned to
\* the side of the line the agent is on
wallForce_AlongLineNormal(pi, wall, prm) ==
  LET dist == distanceToSegment(pi.position, wall.start, wall.end)
      overlap == pi.radius - dist
      perpDist == Mul(wall.a, pi.position.x) + Mul(wall.b, pi.position.y) + wall.c
  IN  IF pi.active /\ overlap > 0
      THEN scale(IF perpDist >= 0 THEN wall.normal ELSE sub(zero, wall.normal),
                 Mul(prm.k, overlap))
      ELSE zero

\* the force one wall adds to forces[i]
wallForce(pi, wall, prm) ==
  LET dist == distanceToSegment(pi.position, wall.start, wall.end)
      overlap == pi.radius - dist
  IN  IF pi.active /\ overlap > 0
      THEN scale(normalFromSegmentToPoint(pi.position, wall.start, wall.end),
                 Mul(prm.k, overlap))
      ELSE zero

\* variant: the force of a pair is added to forces[i] and forces[j] is left alone
computeContactForces_OneSided(peds, walls, prm, bounds, periodic) ==
  [i \in 1..Len(peds) |->
     LET added == [j \in 1..Len(peds) |->
                     IF j > i THEN pairForce(peds[i], peds[j], prm, bounds, periodic)
                     ELSE zero]
         fromWalls == [w \in 1..Len(walls) |-> wallForce(peds[i], walls[w], prm)]
     IN  add(SumVec(added), SumVec(fromWalls))]

computeContactForces(peds, walls, prm, bounds, periodic) ==
  [i \in 1..Len(peds) |->
     LET added == [j \in 1..Len(peds) |->
                     IF j > i THEN pairForce(peds[i], peds[j], prm, bounds, periodic)
                     ELSE zero]
         subtracted == [j \in 1..Len(peds) |->
                     IF j < i THEN pairForce(peds[j], peds[i], prm, bounds, periodic)
                     ELSE zero]
         fromWalls == [w \in 1..Len(walls) |-> wallForce(peds[i], walls[w], prm)]
     IN  add(sub(SumVec(added), SumVec(subtracted)), SumVec(fromWalls))]

computeCompression(pedestrian, others, bounds, periodic) ==
  LET overlapOf(other) ==
        LET delta == IF periodic
                     THEN periodicDisplacement(other.position, pedestrian.position, bounds)
                     ELSE sub(pedestrian.position, other.position)
        IN  pedestrian.radius + other.radius - length(delta)
      contacts == {j \in 1..Len(others) :
                     /\ others[j].id # pedestrian.id
                     /\ others[j].active
                     /\ overlapOf(others[j]) > 0}
      overlaps == [j \in 1..Len(others) |->
                     IF j \in contacts THEN Vec(overlapOf(others[j]), 0) ELSE zero]
  IN  IF Cardinality(contacts) > 0
      THEN RoundDiv(SumVec(overlaps).x, Cardinality(contacts))
      ELSE 0

computeAverageCompression(peds, bounds, periodic) ==
  LET act == {i \in 1..Len(peds) : peds[i].active}
      each == [i \in 1..Len(peds) |->
                 IF i \in act THEN Vec(computeCompression(peds[i], peds, bounds, periodic), 0)
                 ELSE zero]
  IN  IF Cardinality(act) > 0 THEN RoundDiv(SumVec(each).x, Cardinality(act)) ELSE 0

----------------------------------------------------------------------------
(* simulation/vision.ts *)

SetMin(S) == CHOOSE m \in S : \A n \in S : m <= n

\* variant: the later root is preferred to the earlier one
collisionDistancePedestrian_LaterRoot(pi, pj, vCandidate, dMax) ==
  LET dx == pj.position.x - pi.position.x
      dy == pj.position.y - pi.position.y
      dvx == pj.velocity.x - vCandidate.x
      dvy == pj.velocity.y - vCandidate.y
      combinedRadius == pi.radius + pj.radius
  IN  IF dx * dx + dy * dy <= combinedRadius * combinedRadius
      THEN LET toOther == normalize(Vec(dx, dy))
               candidateDir == normalize(vCandidate)
           IN  IF dot(candidateDir, toOther) > 0 THEN 0 ELSE dMax
      ELSE LET A == Mul(dvx, dvx) + Mul(dvy, dvy)
               B == 2 * (Mul(dvx, dx) + Mul(dvy, dy))
               C == Mul(dx, dx) + Mul(dy, dy) - Mul(combinedRadius, combinedRadius)
               discriminant == Mul(B, B) - 4 * Mul(A, C)
           IN  IF BelowEps(A) THEN (IF C <= 0 THEN 0 ELSE dMax)
               ELSE IF discriminant < 0 THEN dMax
               ELSE LET sqrtDisc == Sqrt(discriminant)
                        t1 == Div(-B - sqrtDisc, 2 * A)
                        t2 == Div(-B + sqrtDisc, 2 * A)
                        speed == length(vCandidate)
                    IN  IF AboveEps(t2) THEN Min2(Mul(speed, t2), dMax)
                        ELSE IF AboveEps(t1) THEN Min2(Mul(speed, t1), dMax)
                        ELSE dMax

\* variant: the approach test looks at the relative velocity, not the candidate
collisionDistancePedestrian_RelativeApproach(pi, pj, vCandidate, dMax) ==
  LET dx == pj.position.x - pi.position.x
      dy == pj.position.y - pi.position.y
      dvx == pj.velocity.x - vCandidate.x
      dvy == pj.velocity.y - vCandidate.y
      combinedRadius == pi.radius + pj.radius
  IN  IF dx * dx + dy * dy <= combinedRadius * combinedRadius
      THEN LET toOther == normalize(Vec(dx, dy))
               closingDir == normalize(Vec(-dvx, -dvy))
           IN  IF dot(closingDir, toOther) > 0 THEN 0 ELSE dMax
      ELSE LET A == Mul(dvx, dvx) + Mul(dvy, dvy)
               B == 2 * (Mul(dvx, dx) + Mul(dvy, dy))
               C == Mul(dx, dx) + Mul(dy, dy) - Mul(combinedRadius, combinedRadius)
               discriminant == Mul(B, B) - 4 * Mul(A, C)
           IN  IF BelowEps(A) THEN (IF C <= 0 THEN 0 ELSE dMax)
               ELSE IF discriminant < 0 THEN dMax
               ELSE LET sqrtDisc == Sqrt(discriminant)
                        t1 == Div(-B - sqrtDisc, 2 * A)
                        t2 == Div(-B + sqrtDisc, 2 * A)
                        speed == length(vCandidate)
                    IN  IF AboveEps(t1) THEN Min2(Mul(speed, t1), dMax)
                        ELSE IF AboveEps(t2) THEN Min2(Mul(speed, t2), dMax)
                        ELSE dMax

\* variant: the zero relative-speed case is decided before the overlap test
collisionDistancePedestrian_ParallelFirst(pi, pj, vCandidate, dMax) ==
  LET dx == pj.position.x - pi.position.x
      dy == pj.position.y - pi.position.y
      dvx == pj.velocity.x - vCandidate.x
      dvy == pj.velocity.y - vCandidate.y
      combinedRadius == pi.radius + pj.radius
      overlapping == dx * dx + dy * dy <= combinedRadius * combinedRadius
      A == Mul(dvx, dvx) + Mul(dvy, dvy)
      B == 2 * (Mul(dvx, dx) + Mul(dvy, dy))
      C == Mul(dx, dx) + Mul(dy, dy) - Mul(combinedRadius, combinedRadius)
      discriminant == Mul(B, B) - 4 * Mul(A, C)
  IN  IF BelowEps(A) THEN (IF overlapping THEN 0 ELSE dMax)
      ELSE IF overlapping
      THEN LET toOther == normalize(Vec(dx, dy))
               candidateDir == normalize(vCandidate)
           IN  IF dot(candidateDir, toOther) > 0 THEN 0 ELSE dMax
      ELSE IF discriminant < 0 THEN dMax
      ELSE LET sqrtDisc == Sqrt(discriminant)
               t1 == Div(-B - sqrtDisc, 2 * A)
               t2 == Div(-B + sqrtDisc, 2 * A)
               speed == length(vCandidate)
           IN  IF AboveEps(t1) THEN Min2(Mul(speed, t1), dMax)
               ELSE IF AboveEps(t2) THEN Min2(Mul(speed, t2), dMax)
               ELSE dMax

collisionDistancePedestrian(pi, pj, vCandidate, dMax) ==
  LET dx == pj.position.x - pi.position.x
      dy == pj.position.y - pi.position.y
      dvx == pj.velocity.x - vCandidate.x
      dvy == pj.velocity.y - vCandidate.y
      combinedRadius == pi.radius + pj.radius
  IN  IF dx * dx + dy * dy <= combinedRadius * combinedRadius
      THEN LET toOther == normalize(Vec(dx, dy))
               candidateDir == normalize(vCandidate)
           IN  IF dot(candidateDir, toOther) > 0 THEN 0 ELSE dMax
      ELSE LET A == Mul(dvx, dvx) + Mul(dvy, dvy)
               B == 2 * (Mul(dvx, dx) + Mul(dvy, dy))
               C == Mul(dx, dx) + Mul(dy, dy) - Mul(combinedRadius, combinedRadius)
               discriminant == Mul(B, B) - 4 * Mul(A, C)
           IN  IF BelowEps(A) THEN (IF C <= 0 THEN 0 ELSE dMax)
               ELSE IF discriminant < 0 THEN dMax
               ELSE LET sqrtDisc == Sqrt(discriminant)
                        t1 == Div(-B - sqrtDisc, 2 * A)
                        t2 == Div(-B + sqrtDisc, 2 * A)
                        speed == length(vCandidate)
                    IN  IF AboveEps(t1) THEN Min2(Mul(speed, t1), dMax)
                        ELSE IF AboveEps(t2) THEN Min2(Mul(speed, t2), dMax)
                        ELSE dMax

\* variant: the radius is subtracted without the floor at 0
collisionDistanceWall_NoFloor(ped, wall, vCandidate, dMax) ==
  LET speed == length(vCandidate)
      vDir == normalize(vCandidate)
      segDir == sub(wall.end, wall.start)
      segLen == length(segDir)
      toStart == sub(wall.start, ped.position)
      cross == Mul(vDir.x, segDir.y) - Mul(vDir.y, segDir.x)
  IN  IF BelowEps(speed) THEN dMax
      ELSE IF BelowEps(segLen) THEN dMax
      ELSE IF BelowEps(Abs(cross))
      THEN LET dist == distanceToSegment(ped.position, wall.start, wall.end)
               perpDist == Mul(wall.a, ped.position.x) + Mul(wall.b, ped.position.y) + wall.c
               approach == Mul(wall.a, vCandidate.x) + Mul(wall.b, vCandidate.y)
           IN  IF dist <= ped.radius /\ Mul(perpDist, approach) < 0 THEN 0 ELSE dMax
      ELSE LET t == Div(Mul(toStart.x, segDir.y) - Mul(toStart.y, segDir.x), cross)
               s == Div(Mul(toStart.x, vDir.y) - Mul(toStart.y, vDir.x), cross)
           IN  IF t < 0 \/ s < 0 \/ s > segLen
               THEN IF \/ distance(ped.position, wall.start) <= ped.radius
                       \/ distance(ped.position, wall.end) <= ped.radius
                    THEN 0 ELSE dMax
               ELSE Min2(Mul(t, speed) - ped.radius, dMax)

collisionDistanceWall(ped, wall, vCandidate, dMax) ==
  LET speed == length(vCandidate)
      vDir == normalize(vCandidate)
      segDir == sub(wall.end, wall.start)
      segLen == length(segDir)
      toStart == sub(wall.start, ped.position)
      cross == Mul(vDir.x, segDir.y) - Mul(vDir.y, segDir.x)
  IN  IF BelowEps(speed) THEN dMax
      ELSE IF BelowEps(segLen) THEN dMax
      ELSE IF BelowEps(Abs(cross))
      THEN LET dist == distanceToSegment(ped.position, wall.start, wall.end)
               perpDist == Mul(wall.a, ped.position.x) + Mul(wall.b, ped.position.y) + wall.c
               approach == Mul(wall.a, vCandidate.x) + Mul(wall.b, vCandidate.y)
           IN  IF dist <= ped.radius /\ Mul(perpDist, approach) < 0 THEN 0 ELSE dMax
      ELSE LET t == Div(Mul(toStart.x, segDir.y) - Mul(toStart.y, segDir.x), cross)
               s == Div(Mul(toStart.x, vDir.y) - Mul(toStart.y, vDir.x), cross)
           IN  IF t < 0 \/ s < 0 \/ s > segLen
               THEN IF \/ distance(ped.position, wall.start) <= ped.radius
                       \/ distance(ped.position, wall.end) <= ped.radius
                    THEN 0 ELSE dMax
               ELSE Min2(Max2(0, Mul(t, speed) - ped.radius), dMax)

\* one pass of the loop over candidate directions: the distance for alpha
visionDistance(pedestrian, others, walls, prm, bounds, periodic, actualHeading, alpha) ==
  LET vCandidate == fromAngle(actualHeading + alpha, pedestrian.desiredSpeed)
      seen == {j \in 1..Len(others) :
                 ~(others[j].id = pedestrian.id \/ ~others[j].active)}
      otherAdjusted(other) ==
        IF periodic
        THEN [other EXCEPT !.position =
                add(pedestrian.position,
                    periodicDisplacement(pedestrian.position, other.position, bounds))]
        ELSE other
  IN  SetMin({prm.dMax}
        \cup {collisionDistancePedestrian(pedestrian, otherAdjusted(others[j]),
                                          vCandidate, prm.dMax) : j \in seen}
        \cup {collisionDistanceWall(pedestrian, walls[w], vCandidate, prm.dMax) :
                w \in 1..Len(walls)})

computeVision(pedestrian, others, walls, prm, bounds, periodic, heading) ==
  LET numSteps == CeilDiv(2 * prm.phi, prm.angularResolution) + 1
      angles == [i \in 1..numSteps |-> -prm.phi + (i - 1) * prm.angularResolution]
  IN  [angles |-> angles,
       distances |-> [i \in 1..numSteps |->
          visionDistance(pedestrian, others, walls, prm, bounds, periodic,
                         heading, angles[i])]]

----------------------------------------------------------------------------
(* simulation/heuristics.ts *)

\* d(alpha) for one candidate
directionCost(alpha, f, prm) ==
  Mul(prm.dMax, prm.dMax) + Mul(f, f) - Mul(Mul(2 * prm.dMax, f), Cos(0 - alpha))

\* variant: a later sample of equal cost replaces the current best
RECURSIVE scanDirections_LastMinimum(_, _, _, _, _, _, _)
scanDirections_LastMinimum(angles, distances, prm, i, hasMin, minCost, bestIdx) ==
  IF i > Len(angles) THEN bestIdx
  ELSE LET cost == directionCost(angles[i], distances[i], prm)
       IN  IF ~hasMin \/ cost <= minCost
           THEN scanDirections_LastMinimum(angles, distances, prm, i + 1, TRUE, cost, i)
           ELSE scanDirections_LastMinimum(angles, distances, prm, i + 1, hasMin, minCost,
                                           bestIdx)

\* the scan of selectDirection from index i on; hasMin is FALSE while
\* minCost is still Infinity
RECURSIVE scanDirections(_, _, _, _, _, _, _)
scanDirections(angles, distances, prm, i, hasMin, minCost, bestIdx) ==
  IF i > Len(angles) THEN bestIdx
  ELSE LET cost == directionCost(angles[i], distances[i], prm)
       IN  IF ~hasMin \/ cost < minCost
           THEN scanDirections(angles, distances, prm, i + 1, TRUE, cost, i)
           ELSE scanDirections(angles, distances, prm, i + 1, hasMin, minCost, bestIdx)

selectDirection(angles, distances, prm) ==
  LET bestIdx == scanDirections(angles, distances, prm, 1, FALSE, 0, 1)
  IN  [alphaDes |-> angles[bestIdx], distanceToObstacle |-> distances[bestIdx]]

\* variant: the distance is multiplied by tau
selectSpeed_Product(desiredSpeed, distanceToObstacle, tau) ==
  Min2(desiredSpeed, Mul(distanceToObstacle, tau))

selectSpeed(desiredSpeed, distanceToObstacle, tau) ==
  Min2(desiredSpeed, Div(distanceToObstacle, tau))

computeDesiredVelocity(desiredSpeed, angles, distances, prm) ==
  LET d == selectDirection(angles, distances, prm)
  IN  [alphaDes |-> d.alphaDes,
       speedDes |-> selectSpeed(desiredSpeed, d.distanceToObstacle, prm.tau)]

----------------------------------------------------------------------------
(* simulation/simulation.ts *)

\* Math.PI where an area is computed (radians are not used elsewhere)
MathPI == 314

\* variant: the heading is taken toward the destination under every boundary kind
headingOf_TowardDestination(ped, periodic) ==
  LET toDestination == sub(ped.destination, ped.position)
      dist == length(toDestination)
  IN  IF dist > 10 THEN angle(toDestination)
      ELSE IF length(ped.velocity) > 1 THEN angle(ped.velocity) ELSE 0

\* the heading step() computes for one pedestrian
headingOf(ped, periodic) ==
  IF periodic
  THEN IF ped.direction > 0 THEN 0 ELSE PI
  ELSE LET toDestination == sub(ped.destination, ped.position)
           dist == length(toDestination)
       IN  IF dist > 10 THEN angle(toDestination)
           ELSE IF length(ped.velocity) > 1 THEN angle(ped.velocity) ELSE 0

\* variant: the position is advanced with the velocity the step began with
euler_OldVelocity(ped, velocity, env, prm) ==
  [ped EXCEPT !.velocity = velocity,
              !.position =
                 IF env.boundaryType = "periodic"
                 THEN wrapPosition(add(ped.position, scale(ped.velocity, prm.dt)),
                                   env.bounds)
                 ELSE add(ped.position, scale(ped.velocity, prm.dt))]

\* step() lines 116-122: the Euler step from the new velocity, then the wrap
euler(ped, velocity, env, prm) ==
  [ped EXCEPT !.velocity = velocity,
              !.position =
                 IF env.boundaryType = "periodic"
                 THEN wrapPosition(add(ped.position, scale(velocity, prm.dt)), env.bounds)
                 ELSE add(ped.position, scale(velocity, prm.dt))]

\* variant: the relaxation term is not divided by tau
accelerate_NoTau(ped, force, prm, vDes) ==
  add(ped.velocity,
      scale(add(sub(vDes, ped.velocity), scaleInv(force, ped.mass)), prm.dt))

\* step() lines 102-117: the velocity after relaxation toward vDes and the
\* contact acceleration
accelerate(ped, force, prm, vDes) ==
  add(ped.velocity,
      scale(add(scaleInv(sub(vDes, ped.velocity), prm.tau), scaleInv(force, ped.mass)),
            prm.dt))

\* step() lines 90-100: the desired velocity vector chosen from one vision
desiredVelocity(ped, prm, heading, vision) ==
  fromAngle(heading
              + computeDesiredVelocity(ped.desiredSpeed, vision.angles, vision.distances,
                                       prm).alphaDes,
            computeDesiredVelocity(ped.desiredSpeed, vision.angles, vision.distances,
                                   prm).speedDes)

\* step() lines 86-100: the vision along the heading and the desired velocity
steer(ped, peds, env, prm, heading) ==
  desiredVelocity(ped, prm, heading,
                  computeVision(ped, peds, env.walls, prm, env.bounds,
                                env.boundaryType = "periodic", heading))

\* the body of the update loop of step() for one active pedestrian: peds is
\* the list as it stands when the pedestrian's turn comes
integrate(ped, peds, force, env, prm) ==
  euler(ped,
        accelerate(ped, force, prm,
                   steer(ped, peds, env, prm,
                         headingOf(ped, env.boundaryType = "periodic"))),
        env, prm)

\* the update loop of step() from index i on; hs collects the headings used
RECURSIVE updateLoop(_, _, _, _, _, _)
updateLoop(i, peds, hs, F, env, prm) ==
  IF i > Len(peds) THEN [pedestrians |-> peds, headings |-> hs]
  ELSE IF ~peds[i].active
       THEN updateLoop(i + 1, peds, Append(hs, <<>>), F, env, prm)
       ELSE updateLoop(i + 1,
                       [peds EXCEPT ![i] = integrate(peds[i], peds, F[i], env, prm)],
                       Append(hs, <<headingOf(peds[i], env.boundaryType = "periodic")>>),
                       F, env, prm)

\* variant: the hook stops deactivating once its counter is positive
RECURSIVE evacuationOnStep_CountDependent(_, _, _, _)
evacuationOnStep_CountDependent(i, peds, count, bounds) ==
  IF i > Len(peds) THEN [pedestrians |-> peds, evacuatedCount |-> count]
  ELSE IF peds[i].active /\ peds[i].position.x > bounds.xMax + 50 /\ count < 1
       THEN evacuationOnStep_CountDependent(i + 1, [peds EXCEPT ![i].active = FALSE],
                                            count + 1, bounds)
       ELSE evacuationOnStep_CountDependent(i + 1, peds, count, bounds)

\* variant: agents already inactive are not skipped
RECURSIVE evacuationOnStep_Recount(_, _, _, _)
evacuationOnStep_Recount(i, peds, count, bounds) ==
  IF i > Len(peds) THEN [pedestrians |-> peds, evacuatedCount |-> count]
  ELSE IF peds[i].position.x > bounds.xMax + 50
       THEN evacuationOnStep_Recount(i + 1, [peds EXCEPT ![i].active = FALSE],
                                     count + 1, bounds)
       ELSE evacuationOnStep_Recount(i + 1, peds, count, bounds)

\* scenarios/evacuation.ts onStep: the loop from index i on
RECURSIVE evacuationOnStep(_, _, _, _)
evacuationOnStep(i, peds, count, bounds) ==
  IF i > Len(peds) THEN [pedestrians |-> peds, evacuatedCount |-> count]
  ELSE IF peds[i].active /\ peds[i].position.x > bounds.xMax + 50
       THEN evacuationOnStep(i + 1, [peds EXCEPT ![i].active = FALSE], count + 1, bounds)
       ELSE evacuationOnStep(i + 1, peds, count, bounds)

\* what one callback is handed: the simulation as it is when it is called
observed(hook, peds, t) == [hook |-> hook, time |-> t, pedestrians |-> peds]

\* the registered callbacks of step(), in registration order from index c on;
\* t is this.time when they run and log collects what each was handed
RECURSIVE runCallbacks(_, _, _, _, _, _, _)
runCallbacks(c, cbs, peds, count, env, t, log) ==
  IF c > Len(cbs) THEN [pedestrians |-> peds, evacuatedCount |-> count, hookLog |-> log]
  ELSE IF cbs[c] = "evacuation"
       THEN LET r == evacuationOnStep(1, peds, count, env.bounds)
            IN  runCallbacks(c + 1, cbs, r.pedestrians, r.evacuatedCount, env, t,
                             Append(log, observed(cbs[c], peds, t)))
       ELSE runCallbacks(c + 1, cbs, peds, count, env, t,
                         Append(log, observed(cbs[c], peds, t)))

\* variant: the callbacks run before time is advanced
afterUpdate_HooksFirst(F, r, cbs, count, env, prm, t) ==
  [forces |-> F, headings |-> r.headings, time |-> t + prm.dt]
    @@ runCallbacks(1, cbs, r.pedestrians, count, env, t, <<>>)

\* step() lines 124-129: time is advanced, then the callbacks run on the
\* updated list
afterUpdate(F, r, cbs, count, env, prm, t) ==
  [forces |-> F, headings |-> r.headings, time |-> t + prm.dt]
    @@ runCallbacks(1, cbs, r.pedestrians, count, env, t + prm.dt, <<>>)

\* step() lines 56-122: the update loop run with the forces computed up front
afterForces(peds, env, prm, cbs, count, t, F) ==
  afterUpdate(F, updateLoop(1, peds, <<>>, F, env, prm), cbs, count, env, prm, t)

\* the pedestrian list, scenario counter, time, forces, headings and callback
\* log of one Simulation.step() taken at time t
stepResult(peds, env, prm, cbs, count, t) ==
  afterForces(peds, env, prm, cbs, count, t,
              computeContactForces(peds, env.walls, prm, env.bounds,
                                   env.boundaryType = "periodic"))

\* variant: the list is left as it is
reset_KeepsList(peds) == peds

\* Simulation.reset(): the list is emptied
reset(peds) == <<>>

\* Simulation.addPedestrians
addPedestrians(peds, new) == peds \o new

getMetrics(peds, env, t) ==
  LET act == {i \in 1..Len(peds) : peds[i].active}
      count == Cardinality(act)
      speeds == [i \in 1..Len(peds) |->
                   IF i \in act THEN Vec(length(peds[i].velocity), 0) ELSE zero]
      areas == [i \in 1..Len(peds) |->
                   IF i \in act THEN Vec(Mul(Mul(MathPI, peds[i].radius), peds[i].radius), 0)
                   ELSE zero]
      area == Mul(env.bounds.xMax - env.bounds.xMin, env.bounds.yMax - env.bounds.yMin)
  IN  [time |-> t,
       pedestrianCount |-> count,
       averageSpeed |-> IF count > 0 THEN RoundDiv(SumVec(speeds).x, count) ELSE 0,
       occupancy |-> Div(SumVec(areas).x, area),
       averageCompression |->
          computeAverageCompression(peds, env.bounds, env.boundaryType = "periodic")]

----------------------------------------------------------------------------
(* Scenarios and initial populations *)

MaxPeds == 3

MaxTime == 50

Scenarios == {"bidirectional", "twoPedestrian", "evacuation"}

scenarioBounds == [xMin |-> -200, xMax |-> 200, yMin |-> -100, yMax |-> 100]

scenarioBoundaryType(sc) ==
  IF sc = "bidirectional" THEN "periodic"
  ELSE IF sc = "twoPedestrian" THEN "closed" ELSE "open"

scenarioWalls(sc) ==
  IF sc = "evacuation" THEN createCorridorWithDoor(400, 200, 100)
  ELSE createCorridor(400, 200)

\* Scenario.create registers this.onStep when the scenario defines one; the
\* evacuation run has a second callback registered after it, which only looks
scenarioCallbacks(sc) ==
  IF sc = "twoPedestrian" THEN <<>>
  ELSE IF sc = "evacuation" THEN <<sc, "observer">> ELSE <<sc>>

scenarioParams ==
  [tau |-> 50, phi |-> 90, dMax |-> 1000, k |-> 500000, dt |-> 25,
   angularResolution |-> 45]

\* the options of the createPedestrian calls a scenario may make
PedestrianOptions ==
  << [position |-> Vec(-50, 0), destination |-> Vec(200, 0), velocity |-> zero,
      mass |-> 8000, desiredSpeed |-> 130, direction |-> 1],
     [position |-> Vec(50, 0), destination |-> Vec(-200, -80), velocity |-> Vec(-100, 0),
      mass |-> 9600, desiredSpeed |-> 130, direction |-> -1],
     [position |-> Vec(-20, 30), destination |-> Vec(200, 30), velocity |-> Vec(50, 0),
      mass |-> 6400, desiredSpeed |-> 110, direction |-> 1],
     [position |-> Vec(190, -80), destination |-> Vec(200, -80), velocity |-> Vec(100, 0),
      mass |-> 8000, desiredSpeed |-> 150, direction |-> 1],
     [position |-> Vec(240, 0), destination |-> Vec(400, 0), velocity |-> Vec(130, 0),
      mass |-> 8000, desiredSpeed |-> 130, direction |-> 1],
     [position |-> Vec(-190, -80), destination |-> Vec(-200, -80), velocity |-> Vec(-120, 0),
      mass |-> 9600, desiredSpeed |-> 120, direction |-> -1],
     [position |-> Vec(0, 40), destination |-> Vec(0, 40), velocity |-> zero,
      mass |-> 8000, desiredSpeed |-> 0, direction |-> 1],
     [position |-> Vec(188, 0), destination |-> Vec(400, 0), velocity |-> Vec(300, 0),
      mass |-> 8000, desiredSpeed |-> 130, direction |-> 1] >>

\* the increasing index sequences of length n over 1..m
RECURSIVE Choices(_, _)
Choices(n, m) ==
  IF n = 0 THEN {<<>>}
  ELSE IF m = 0 THEN {}
  ELSE Choices(n, m - 1) \cup {Append(c, m) : c \in Choices(n - 1, m - 1)}

\* resetPedestrianIds(): the value nextId is set to
resetPedestrianIds == 0

\* initializePedestrians: one createPedestrian per chosen option, each taking
\* the current nextId, which starts at id0
initializePedestrians(id0, choice) ==
  [i \in 1..Len(choice) |-> createPedestrian(id0 + i - 1, PedestrianOptions[choice[i]])]

noProbe == [fn |-> "none"]

\* no control surface set up on the simulation
noControls == [fn |-> "none"]

\* no createPedestriansInArea call under way
noPlacement == [fn |-> "none"]

Init ==
  /\ \E sc \in Scenarios :
       /\ environment = createEnvironment(scenarioWalls(sc), scenarioBounds,
                                          scenarioBoundaryType(sc))
       /\ callbacks = scenarioCallbacks(sc)
  /\ params = scenarioParams
  /\ \E n \in 1..MaxPeds : \E choice \in Choices(n, Len(PedestrianOptions)) :
       /\ pedestrians = addPedestrians(<<>>, initializePedestrians(resetPedestrianIds,
                                                                  choice))
       /\ nextId = resetPedestrianIds + Len(choice)
  /\ time = 0
  /\ evacuatedCount = 0
  /\ pre = <<>>
  /\ forces = <<>>
  /\ headings = <<>>
  /\ hookLog = <<>>
  /\ placement = noPlacement
  /\ controls = noControls
  /\ probe = noProbe

\* Simulation.step()
Step ==
  /\ time < MaxTime
  /\ \E r \in {stepResult(pedestrians, environment, params, callbacks, evacuatedCount,
                          time)} :
         /\ pedestrians' = r.pedestrians
         /\ evacuatedCount' = r.evacuatedCount
         /\ forces' = r.forces
         /\ headings' = r.headings
         /\ time' = r.time
         /\ hookLog' = r.hookLog
  /\ pre' = pedestrians
  /\ UNCHANGED <<environment, params, callbacks, nextId, placement, controls, probe>>

\* variant: Scenario.reset registers the scenario's hook once more
resetScenario_RegistersHookAgain ==
  /\ \E choice \in Choices(Len(pedestrians), Len(PedestrianOptions)) :
       /\ pedestrians' = addPedestrians(reset(pedestrians),
                                        initializePedestrians(resetPedestrianIds, choice))
       /\ nextId' = resetPedestrianIds + Len(choice)
  /\ time' = 0
  /\ evacuatedCount' = 0
  /\ pre' = <<>>
  /\ forces' = <<>>
  /\ headings' = <<>>
  /\ hookLog' = <<>>
  /\ callbacks' = callbacks \o SubSeq(callbacks, 1, 1)
  /\ UNCHANGED <<environment, params, placement, controls>>

\* Scenario.reset(simulation): the id counter restarts, the simulation is
\* emptied and its time zeroed, and the scenario places its pedestrians again,
\* as many as it placed before
resetScenario ==
  /\ \E choice \in Choices(Len(pedestrians), Len(PedestrianOptions)) :
       /\ pedestrians' = addPedestrians(reset(pedestrians),
                                        initializePedestrians(resetPedestrianIds, choice))
       /\ nextId' = resetPedestrianIds + Len(choice)
  /\ time' = 0
  /\ evacuatedCount' = 0
  /\ pre' = <<>>
  /\ forces' = <<>>
  /\ headings' = <<>>
  /\ hookLog' = <<>>
  /\ UNCHANGED <<environment, params, callbacks, placement, controls>>

Reset == resetScenario /\ UNCHANGED probe

Next == Step \/ Reset

Spec == Init /\ [][Next]_vars

----------------------------------------------------------------------------
(* Scenario.create followed by steps and resets, the resets on record:     *)
(* probe tells that Scenario.reset has been called on the simulation.      *)

InitReset ==
  /\ \E sc \in Scenarios :
       /\ environment = createEnvironment(scenarioWalls(sc), scenarioBounds,
                                          scenarioBoundaryType(sc))
       /\ callbacks = scenarioCallbacks(sc)
  /\ params = scenarioParams
  /\ \E n \in 1..2 : \E choice \in Choices(n, Len(PedestrianOptions)) :
       /\ pedestrians = addPedestrians(<<>>, initializePedestrians(resetPedestrianIds,
                                                                  choice))
       /\ nextId = resetPedestrianIds + Len(choice)
  /\ time = 0
  /\ evacuatedCount = 0
  /\ pre = <<>>
  /\ forces = <<>>
  /\ headings = <<>>
  /\ hookLog = <<>>
  /\ placement = noPlacement
  /\ controls = noControls
  /\ probe = noProbe

ResetCalled == resetScenario /\ probe' = [fn |-> "Scenario.reset"]

NextReset == Step \/ ResetCalled

SpecReset == InitReset /\ [][NextReset]_vars

----------------------------------------------------------------------------
(* Scenario.create(customParams) with parameters and walls the caller      *)
(* chooses, followed by steps.                                             *)

\* new Simulation(environment, params): { ...defaultParams, ...params }, the
\* scenario's own defaults already merged in
constructParams(customParams) == customParams @@ scenarioParams

\* parameter overrides a caller may pass to Scenario.create
CustomParams == {[dt |-> 25], [dt |-> 0], [phi |-> 0], [dMax |-> 0]}

\* walls a scenario may build on top of its corridor: none, one whose two
\* endpoints coincide, or a partition inside the corridor
ExtraWalls ==
  {<<>>, <<createWall(Vec(0, 50), Vec(0, 50))>>, <<createWall(Vec(15, 55), Vec(100, 55))>>}

InitConfig ==
  /\ \E extra \in ExtraWalls :
       environment = createEnvironment(scenarioWalls("twoPedestrian") \o extra,
                                       scenarioBounds, "closed")
  /\ callbacks = scenarioCallbacks("twoPedestrian")
  /\ \E customParams \in CustomParams : params = constructParams(customParams)
  /\ \E n \in 1..2 : \E choice \in Choices(n, Len(PedestrianOptions)) :
       /\ pedestrians = addPedestrians(<<>>, initializePedestrians(resetPedestrianIds,
                                                                  choice))
       /\ nextId = resetPedestrianIds + Len(choice)
  /\ time = 0
  /\ evacuatedCount = 0
  /\ pre = <<>>
  /\ forces = <<>>
  /\ headings = <<>>
  /\ hookLog = <<>>
  /\ placement = noPlacement
  /\ controls = noControls
  /\ probe = noProbe

SpecConfig == InitConfig /\ [][Step]_vars

----------------------------------------------------------------------------
(* The application: a scenario is initialized, the control surface is set  *)
(* up on the params of its ScenarioState, and then controls are moved,     *)
(* scenarios switched and steps taken.  controls is the object the         *)
(* onChange handlers write.  Scenario.create and the Simulation constructor*)
(* each spread what they are given into a new object, so params, the       *)
(* object step() reads, starts with the same values and is another object. *)

\* values a control may be moved to
ControlValues == [tau |-> {50, 100}, dMax |-> {1000, 500}]

\* initializeScenario / switchScenario: the params of the ScenarioState
scenarioStateParams(customParams) == customParams @@ scenarioParams

\* Scenario.create(params): the simulation a scenario builds
createSimulation(sc, stateParams, choice) ==
  [environment |-> createEnvironment(scenarioWalls(sc), scenarioBounds,
                                     scenarioBoundaryType(sc)),
   params |-> constructParams(stateParams),
   callbacks |-> scenarioCallbacks(sc),
   pedestrians |-> addPedestrians(<<>>, initializePedestrians(resetPedestrianIds,
                                                              choice)),
   nextId |-> resetPedestrianIds + Len(choice)]

\* new App(): initializeScenario, then setupControls(appState, state.params, ...)
InitControls ==
  /\ \E sc \in Scenarios, n \in 1..2 :
       \E choice \in Choices(n, Len(PedestrianOptions)) :
         \E sim \in {createSimulation(sc, scenarioStateParams(<<>>), choice)} :
           /\ environment = sim.environment
           /\ params = sim.params
           /\ callbacks = sim.callbacks
           /\ pedestrians = sim.pedestrians
           /\ nextId = sim.nextId
  /\ controls = scenarioStateParams(<<>>)
  /\ time = 0
  /\ evacuatedCount = 0
  /\ pre = <<>>
  /\ forces = <<>>
  /\ headings = <<>>
  /\ hookLog = <<>>
  /\ placement = noPlacement
  /\ probe = noProbe

\* an onChange handler of setupControls: params.tau = v, params.dMax = v
onChange ==
  /\ \E field \in DOMAIN ControlValues : \E v \in ControlValues[field] :
       controls' = [controls EXCEPT ![field] = v]
  /\ UNCHANGED <<pedestrians, environment, params, time, callbacks, evacuatedCount,
                 nextId, pre, forces, headings, hookLog, placement, probe>>

\* App.loadScenario(name): this.state = switchScenario(name); the controls are
\* refreshed for display and keep the handlers they were set up with
loadScenario ==
  /\ \E sc \in Scenarios, n \in 1..2 :
       \E choice \in Choices(n, Len(PedestrianOptions)) :
         \E sim \in {createSimulation(sc, scenarioStateParams(<<>>), choice)} :
           /\ environment' = sim.environment
           /\ params' = sim.params
           /\ callbacks' = sim.callbacks
           /\ pedestrians' = sim.pedestrians
           /\ nextId' = sim.nextId
  /\ time' = 0
  /\ evacuatedCount' = 0
  /\ pre' = <<>>
  /\ forces' = <<>>
  /\ headings' = <<>>
  /\ hookLog' = <<>>
  /\ UNCHANGED <<placement, controls, probe>>

NextControls == onChange \/ loadScenario \/ Step

SpecControls == InitControls /\ [][NextControls]_vars

----------------------------------------------------------------------------
(* createPedestriansInArea, one pass of its loop at a time.  Math.random   *)
(* and randomNormal are choices from small sets.                           *)

MaxCount == 2

\* positions Math.random may give inside the area
AreaPositions == {Vec(0, 0), Vec(60, 0)}

\* values of 60 + Math.random() * 40, in kg
MassDraws == {6000, 10000}

\* values of randomNormal(mean, std)
SpeedSamples == {30, 130}

InitPlacement ==
  /\ environment = createEnvironment(scenarioWalls("evacuation"), scenarioBounds, "open")
  /\ callbacks = <<>>
  /\ params = scenarioParams
  /\ pedestrians = <<>>
  /\ nextId = resetPedestrianIds
  /\ time = 0
  /\ evacuatedCount = 0
  /\ pre = <<>>
  /\ forces = <<>>
  /\ headings = <<>>
  /\ hookLog = <<>>
  /\ controls = noControls
  /\ probe = noProbe
  /\ \E count \in 1..MaxCount, uniformMass \in {<<>>, <<6000>>} :
       placement = [fn |-> "createPedestriansInArea", count |-> count,
                    bounds |-> scenarioBounds, uniformMass |-> uniformMass,
                    pedestrians |-> <<>>, attempts |-> 0, returned |-> FALSE]

\* one pass of the while loop
Attempt ==
  /\ ~placement.returned
  /\ placing(placement)
  /\ \E position \in AreaPositions, checkMass \in MassDraws, bodyMass \in MassDraws,
        speedSample \in SpeedSamples :
       placement' = placeAttempt(placement, nextId, position, checkMass, bodyMass,
                                 speedSample)
  /\ nextId' = nextId + (Len(placement'.pedestrians) - Len(placement.pedestrians))
  /\ UNCHANGED <<pedestrians, environment, params, time, callbacks, evacuatedCount,
                 pre, forces, headings, hookLog, controls, probe>>

\* the loop is left and the list returned
Return ==
  /\ ~placement.returned
  /\ ~placing(placement)
  /\ placement' = [placement EXCEPT !.returned = TRUE]
  /\ UNCHANGED <<pedestrians, environment, params, time, callbacks, evacuatedCount,
                 nextId, pre, forces, headings, hookLog, controls, probe>>

NextPlacement == Attempt \/ Return

\* the loop is sequential code: a pass that can run does run
SpecPlacement == InitPlacement /\ [][NextPlacement]_vars /\ WF_vars(NextPlacement)

----------------------------------------------------------------------------
(* Direct calls of the pure functions, inputs drawn from bounded sets.     *)
(* probe records the call: the function, its arguments and its result.     *)

\* a Simulation constructed and not yet populated
InitEmpty ==
  /\ environment = createEnvironment(scenarioWalls("twoPedestrian"), scenarioBounds,
                                     "closed")
  /\ callbacks = <<>>
  /\ params = scenarioParams
  /\ pedestrians = <<>>
  /\ nextId = resetPedestrianIds
  /\ time = 0
  /\ evacuatedCount = 0
  /\ pre = <<>>
  /\ forces = <<>>
  /\ headings = <<>>
  /\ hookLog = <<>>
  /\ placement = noPlacement
  /\ controls = noControls
  /\ probe = noProbe

ProbeAngles == {a \in GridAngles : a % 45 = 0}

ProbeSpeeds == {0, 100, 130}

ProbeDMax == {200, 1000}

ProbeOtherX == {0, 40, 80, 100, 300}

ProbeOtherY == {0, 30, -60}

ProbeOtherVelocity == {zero, Vec(-100, 0), Vec(100, 0), Vec(0, 100), Vec(130, 0)}

ProbeRadii == {<<25, 30>>, <<50, 50>>}

\* collisionDistancePedestrian(pi, pj, vCandidate, dMax), observer at the origin
ProbePedestrian ==
  /\ probe = noProbe
  /\ \E x \in ProbeOtherX, y \in ProbeOtherY, v \in ProbeOtherVelocity,
        r \in ProbeRadii, a \in ProbeAngles, sp \in ProbeSpeeds, dMax \in ProbeDMax :
       LET pi == [position |-> zero, radius |-> r[1]]
           pj == [position |-> Vec(x, y), velocity |-> v, radius |-> r[2]]
           vCandidate == fromAngle(a, sp)
       IN  probe' = [fn |-> "collisionDistancePedestrian", pi |-> pi, pj |-> pj,
                     vCandidate |-> vCandidate, dMax |-> dMax,
                     result |-> collisionDistancePedestrian(pi, pj, vCandidate, dMax)]
  /\ UNCHANGED simVars

ProbeWalls ==
  { createWall(Vec(-200, 100), Vec(200, 100)),
    createWall(Vec(200, -100), Vec(-200, -100)),
    createWall(Vec(200, 100), Vec(200, 50)),
    createWall(Vec(100, -30), Vec(130, 10)),
    createWall(Vec(50, 50), Vec(50, 50)) }

ProbePositions == {zero, Vec(190, 80), Vec(0, -90), Vec(60, 50), Vec(300, 75)}

\* collisionDistanceWall(ped, wall, vCandidate, dMax)
ProbeWall ==
  /\ probe = noProbe
  /\ \E pos \in ProbePositions, w \in ProbeWalls, r \in {20, 30},
        a \in ProbeAngles, sp \in ProbeSpeeds, dMax \in ProbeDMax :
       LET ped == [position |-> pos, radius |-> r]
           vCandidate == fromAngle(a, sp)
       IN  probe' = [fn |-> "collisionDistanceWall", ped |-> ped, wall |-> w,
                     vCandidate |-> vCandidate, dMax |-> dMax,
                     result |-> collisionDistanceWall(ped, w, vCandidate, dMax)]
  /\ UNCHANGED simVars

ProbeVisionParams ==
  {[scenarioParams EXCEPT !.phi = ph, !.angularResolution = res, !.dMax = dMax] :
     ph \in {45, 90}, res \in {30, 45, 60}, dMax \in ProbeDMax}

\* computeVision(pedestrian, others, walls, params, bounds, periodic, heading)
ProbeVision ==
  /\ probe = noProbe
  /\ \E choice \in Choices(2, Len(PedestrianOptions)), sc \in Scenarios,
        prm \in ProbeVisionParams, heading \in {0, 90, PI}, inactive \in BOOLEAN :
       LET made == initializePedestrians(resetPedestrianIds, choice)
           others == [made EXCEPT ![2].active = ~inactive]
           periodic == scenarioBoundaryType(sc) = "periodic"
       IN  probe' = [fn |-> "computeVision", pedestrian |-> others[1], others |-> others,
                     walls |-> scenarioWalls(sc), params |-> prm, periodic |-> periodic,
                     heading |-> heading,
                     result |-> computeVision(others[1], others, scenarioWalls(sc), prm,
                                              scenarioBounds, periodic, heading)]
  /\ UNCHANGED simVars

NextVision == ProbePedestrian \/ ProbeWall \/ ProbeVision

SpecVision == InitEmpty /\ [][NextVision]_vars

ProbeDistances == {0, 40, 500, 1000}

\* the angles computeVision samples for phi and angularResolution
sampledAngles(phi, res) ==
  [i \in 1..(CeilDiv(2 * phi, res) + 1) |-> -phi + (i - 1) * res]

\* selectDirection(angles, distances, params)
ProbeSelectDirection ==
  /\ probe = noProbe
  /\ \E res \in {45, 60}, dMax \in {1000} :
       LET angles == sampledAngles(90, res)
           prm == [scenarioParams EXCEPT !.dMax = dMax, !.angularResolution = res]
       IN  \E distances \in [1..Len(angles) -> ProbeDistances] :
             probe' = [fn |-> "selectDirection", angles |-> angles,
                       distances |-> distances, params |-> prm,
                       result |-> selectDirection(angles, distances, prm)]
  /\ UNCHANGED simVars

\* selectSpeed(desiredSpeed, distanceToObstacle, tau)
ProbeSelectSpeed ==
  /\ probe = noProbe
  /\ \E desiredSpeed \in {0, 50, 130, 150}, f \in ProbeDistances \cup {20, 75},
        tau \in {50, 100} :
       probe' = [fn |-> "selectSpeed", desiredSpeed |-> desiredSpeed,
                 distanceToObstacle |-> f, tau |-> tau,
                 result |-> selectSpeed(desiredSpeed, f, tau)]
  /\ UNCHANGED simVars

NextHeuristics == ProbeSelectDirection \/ ProbeSelectSpeed

SpecHeuristics == InitEmpty /\ [][NextHeuristics]_vars

----------------------------------------------------------------------------
(* Properties *)

Periodic == environment.boundaryType = "periodic"

ActiveIn(peds) == {i \in 1..Len(peds) : peds[i].active}

\* d shifted by a multiple of range to the smallest magnitude (d itself on a tie)
NearestImage(d, range) ==
  LET cands == {d - range, d, d + range}
      least == {c \in cands : \A o \in cands : Abs(c) <= Abs(o)}
  IN  IF d \in least THEN d ELSE CHOOSE c \in least : TRUE

\* the vector from the centre of pj to the centre of pi (nearest image when periodic)
CentreDelta(pi, pj) ==
  IF Periodic
  THEN Vec(NearestImage(pi.position.x - pj.position.x,
                        environment.bounds.xMax - environment.bounds.xMin),
           NearestImage(pi.position.y - pj.position.y,
                        environment.bounds.yMax - environment.bounds.yMin))
  ELSE sub(pi.position, pj.position)

Overlapping(pi, pj) ==
  /\ length(CentreDelta(pi, pj)) > 0
  /\ length(CentreDelta(pi, pj)) < pi.radius + pj.radius

\* k * (radius_i + radius_j - distance) along the unit vector from pj to pi
PairContribution(pi, pj) ==
  LET delta == CentreDelta(pi, pj)
      dist == length(delta)
  IN  IF Overlapping(pi, pj)
      THEN scale(scaleInv(delta, dist), Mul(params.k, pi.radius + pj.radius - dist))
      ELSE zero

Negated(v) == Vec(-v.x, -v.y)

\* C1: in the force array of the last step, every overlapping pair of active
\* agents i < j contributes k*(r_i + r_j - distance) along the unit vector from
\* j to i to forces[i] and the exact negative to forces[j] (the rest of an
\* entry being its wall forces), and without walls the array sums to zero.
C1_NewtonThirdLaw ==
  time > 0 =>
    LET act == ActiveIn(pre)
        pairPart(i) ==
          SumVec([j \in 1..Len(pre) |->
                    IF i \in act /\ j \in act /\ i < j
                    THEN PairContribution(pre[i], pre[j])
                    ELSE IF i \in act /\ j \in act /\ j < i
                    THEN Negated(PairContribution(pre[j], pre[i]))
                    ELSE zero])
        wallPart(i) ==
          SumVec([w \in 1..Len(environment.walls) |->
                    wallForce(pre[i], environment.walls[w], params)])
    IN  /\ \A i \in 1..Len(pre) : forces[i] = add(pairPart(i), wallPart(i))
        /\ SumVec([i \in 1..Len(pre) |-> sub(forces[i], wallPart(i))]) = zero
        /\ SumVec(computeContactForces(pre, <<>>, params, environment.bounds, Periodic))
             = zero

\* a step whose force pass found an overlapping pair across the periodic seam
C1_Witness ==
  /\ time > 0
  /\ Periodic
  /\ \E i, j \in ActiveIn(pre) :
       /\ i < j
       /\ Overlapping(pre[i], pre[j])
       /\ CentreDelta(pre[i], pre[j]) # sub(pre[i].position, pre[j].position)
       /\ PairContribution(pre[i], pre[j]) # zero

InRange(d, dMax) == 0 <= d /\ d <= dMax

\* C2: every distance computeVision returns, and every value of the agent-agent
\* and agent-wall distance functions, lies in [0, d_max].
C2_VisionBounds ==
  /\ probe.fn = "computeVision" =>
       \A k \in 1..Len(probe.result.distances) :
         InRange(probe.result.distances[k], probe.params.dMax)
  /\ probe.fn \in {"collisionDistancePedestrian", "collisionDistanceWall"} =>
       InRange(probe.result, probe.dMax)

\* a vision with a blocked direction, a partly free one and a free one
C2_Witness ==
  /\ probe.fn = "computeVision"
  /\ \E k \in 1..Len(probe.result.distances) : probe.result.distances[k] = 0
  /\ \E k \in 1..Len(probe.result.distances) :
       /\ probe.result.distances[k] > 0
       /\ probe.result.distances[k] < probe.params.dMax
  /\ \E k \in 1..Len(probe.result.distances) :
       probe.result.distances[k] = probe.params.dMax

Perms(n) == {f \in [1..n -> 1..n] : \A a, b \in 1..n : f[a] = f[b] => a = b}

\* C3: a step from the current state yields, for every agent, the same
\* position and velocity whatever the order of the pedestrian list.
C3_OrderIndependent ==
  Cardinality(ActiveIn(pedestrians)) >= 2 =>
    \A f \in Perms(Len(pedestrians)) :
      LET permuted == [i \in 1..Len(pedestrians) |-> pedestrians[f[i]]]
          inOrder == stepResult(pedestrians, environment, params, callbacks,
                                evacuatedCount, time).pedestrians
          other == stepResult(permuted, environment, params, callbacks,
                              evacuatedCount, time).pedestrians
      IN  \A i \in 1..Len(pedestrians) :
            /\ other[i].position = inOrder[f[i]].position
            /\ other[i].velocity = inOrder[f[i]].velocity

InBounds(p, b) == b.xMin <= p.x /\ p.x <= b.xMax /\ b.yMin <= p.y /\ p.y <= b.yMax

\* C4: after a step under periodic boundaries every active agent is inside
\* the bounds rectangle.
C4_PeriodicInBounds ==
  (time > 0 /\ Periodic) =>
    \A i \in ActiveIn(pedestrians) : InBounds(pedestrians[i].position, environment.bounds)

\* an agent that started outside the bounds, or left them in the step, was wrapped
C4_Witness ==
  /\ time > 0
  /\ Periodic
  /\ \E i \in ActiveIn(pedestrians) :
       /\ pre[i].velocity.x > 0
       /\ pedestrians[i].velocity.x > 0
       /\ pedestrians[i].position.x < pre[i].position.x

\* C5: the heading step() used for each active agent: 0 or PI by the sign of
\* direction under periodic boundaries; otherwise the angle to the destination,
\* or within 0.1 of it the angle of the velocity if speed > 0.01, else 0.
C5_Heading ==
  time > 0 =>
    \A i \in 1..Len(pre) :
      IF ~pre[i].active THEN headings[i] = <<>>
      ELSE /\ Len(headings[i]) = 1
           /\ Periodic =>
                /\ headings[i][1] \in {0, PI}
                /\ headings[i][1] = 0 <=> pre[i].direction > 0
           /\ (~Periodic /\ distance(pre[i].position, pre[i].destination) > 10) =>
                headings[i][1] = angle(sub(pre[i].destination, pre[i].position))
           /\ (~Periodic /\ distance(pre[i].position, pre[i].destination) <= 10) =>
                headings[i][1] = IF length(pre[i].velocity) > 1
                                 THEN angle(pre[i].velocity) ELSE 0

\* a periodic step of an agent whose destination does not lie along its heading
C5_Witness ==
  /\ time > 0
  /\ Periodic
  /\ \E i \in ActiveIn(pre) :
       /\ distance(pre[i].position, pre[i].destination) > 10
       /\ headings[i] # <<angle(sub(pre[i].destination, pre[i].position))>>

\* d(alpha) = d_max^2 + f^2 - 2 d_max f cos(alpha)
ClaimedCost(alpha, f, dMax) ==
  Mul(dMax, dMax) + Mul(f, f) - Mul(Mul(2 * dMax, f), Cos(alpha))

\* the indices of the probed samples that attain the minimal cost
MinimalCostIndices ==
  LET cost(i) == ClaimedCost(probe.angles[i], probe.distances[i], probe.params.dMax)
  IN  {i \in 1..Len(probe.angles) : \A j \in 1..Len(probe.angles) : cost(i) <= cost(j)}

\* C6: selectDirection returns the sampled angle of minimal cost d(alpha), the
\* one of smallest index when several attain the minimum, with its own distance.
C6_FirstMinimum ==
  probe.fn = "selectDirection" =>
    LET first == SetMin(MinimalCostIndices)
    IN  /\ probe.result.alphaDes = probe.angles[first]
        /\ probe.result.distanceToObstacle = probe.distances[first]

\* a call in which two sampled angles attain the minimal cost
C6_Witness ==
  /\ probe.fn = "selectDirection"
  /\ Cardinality(MinimalCostIndices) >= 2
  /\ probe.result.alphaDes < 0

\* C7: selectSpeed returns min(desiredSpeed, f / tau): at most desiredSpeed, at
\* most f / tau, one of the two, 0 when f is 0, and 0.8 for (1.3, 0.4, 0.5).
C7_SpeedCap ==
  probe.fn = "selectSpeed" =>
    LET cap == Div(probe.distanceToObstacle, probe.tau)
    IN  /\ probe.result <= probe.desiredSpeed
        /\ probe.result <= cap
        /\ probe.result \in {probe.desiredSpeed, cap}
        /\ probe.distanceToObstacle = 0 => probe.result = 0
        /\ (probe.desiredSpeed = 130 /\ probe.distanceToObstacle = 40 /\ probe.tau = 50)
             => probe.result = 80

\* the call selectSpeed(1.3, 0.4, 0.5), limited by the obstacle distance
C7_Witness ==
  /\ probe.fn = "selectSpeed"
  /\ probe.desiredSpeed = 130
  /\ probe.distanceToObstacle = 40
  /\ probe.tau = 50
  /\ probe.result = 80

ProbeDx == probe.pj.position.x - probe.pi.position.x

ProbeDy == probe.pj.position.y - probe.pi.position.y

ProbeCombinedRadius == probe.pi.radius + probe.pj.radius

ProbeOverlapping ==
  ProbeDx * ProbeDx + ProbeDy * ProbeDy <= ProbeCombinedRadius * ProbeCombinedRadius

ProbeRelativeVelocity == sub(probe.pj.velocity, probe.vCandidate)

\* the roots of |d + dv t|^2 = (r_i + r_j)^2
ContactTimes ==
  LET dv == ProbeRelativeVelocity
      A == Mul(dv.x, dv.x) + Mul(dv.y, dv.y)
      B == 2 * (Mul(dv.x, ProbeDx) + Mul(dv.y, ProbeDy))
      C == Mul(ProbeDx, ProbeDx) + Mul(ProbeDy, ProbeDy)
             - Mul(ProbeCombinedRadius, ProbeCombinedRadius)
      disc == Mul(B, B) - 4 * Mul(A, C)
  IN  IF disc < 0 THEN {}
      ELSE {Div(-B - Sqrt(disc), 2 * A), Div(-B + Sqrt(disc), 2 * A)}

PositiveContactTimes == {t \in ContactTimes : t > 0}

\* the centre distance of the probed pair after time t at the candidate velocity
SeparationAfter(t) ==
  length(Vec(ProbeDx + Mul(ProbeRelativeVelocity.x, t),
             ProbeDy + Mul(ProbeRelativeVelocity.y, t)))

\* C8: for a pair that does not overlap and has non-zero relative velocity the
\* distance is candidate speed times the smallest strictly positive contact
\* time, capped at d_max, and d_max when there is none; at the chosen time the
\* centres are the summed radii apart (to 0.08, the rounding of a grazing
\* contact on the grid); the spec's example gives 2.0.
C8_TimeToContact ==
  (/\ probe.fn = "collisionDistancePedestrian"
   /\ ~ProbeOverlapping
   /\ ProbeRelativeVelocity # zero) =>
    /\ probe.result =
         IF PositiveContactTimes = {} THEN probe.dMax
         ELSE Min2(Mul(length(probe.vCandidate), SetMin(PositiveContactTimes)), probe.dMax)
    /\ (PositiveContactTimes # {} /\ SetMin(PositiveContactTimes) = SetMin(ContactTimes)) =>
         Abs(SeparationAfter(SetMin(PositiveContactTimes)) - ProbeCombinedRadius) <= 8
    /\ (/\ probe.pj.position = Vec(300, 0)
        /\ probe.pj.velocity = zero
        /\ probe.pi.radius = 50
        /\ probe.pj.radius = 50
        /\ probe.vCandidate = Vec(100, 0)) => probe.result = 200

\* the spec's example: observer at (0,0), candidate (1,0), other at (3,0), radii 0.5
C8_Witness ==
  /\ probe.fn = "collisionDistancePedestrian"
  /\ probe.pj.position = Vec(300, 0)
  /\ probe.pj.velocity = zero
  /\ probe.pi.radius = 50
  /\ probe.pj.radius = 50
  /\ probe.vCandidate = Vec(100, 0)
  /\ Cardinality(PositiveContactTimes) = 2
  /\ probe.result = 200

\* C9: for a pair whose centre distance is at most the summed radii the
\* distance is 0 when the candidate direction has a positive dot product with
\* the vector toward the other agent and d_max otherwise, whatever the other
\* agent's velocity.
C9_OverlapDotTest ==
  (probe.fn = "collisionDistancePedestrian" /\ ProbeOverlapping) =>
    /\ probe.result =
         IF probe.vCandidate.x * ProbeDx + probe.vCandidate.y * ProbeDy > 0
         THEN 0 ELSE probe.dMax
    /\ \A v \in ProbeOtherVelocity :
         collisionDistancePedestrian(probe.pi, [probe.pj EXCEPT !.velocity = v],
                                     probe.vCandidate, probe.dMax) = probe.result

\* the spec's example: 0.8 apart, combined radius 1.0, candidate toward the
\* other agent, while the other agent moves away faster than the candidate
C9_Witness ==
  /\ probe.fn = "collisionDistancePedestrian"
  /\ probe.pj.position = Vec(80, 0)
  /\ ProbeCombinedRadius = 100
  /\ probe.vCandidate = Vec(100, 0)
  /\ probe.pj.velocity = Vec(130, 0)
  /\ probe.result = 0

IsActive(p) == p.active

\* the entries of seq at the indices where peds is active
RECURSIVE AtActive(_, _)
AtActive(seq, peds) ==
  IF peds = <<>> THEN <<>>
  ELSE IF Head(peds).active THEN <<Head(seq)>> \o AtActive(Tail(seq), Tail(peds))
  ELSE AtActive(Tail(seq), Tail(peds))

\* C10: an inactive agent receives no contact force and adds none, is left
\* unchanged by step(), is no obstacle in any vision (nor is the observer
\* itself), and is not counted by getMetrics.
C10_InactiveExcluded ==
  time > 0 =>
    LET live == SelectSeq(pedestrians, IsActive)
        visionOf(ped, others) ==
          computeVision(ped, others, environment.walls, params, environment.bounds,
                        Periodic, headingOf(ped, Periodic))
    IN  /\ \A i \in 1..Len(pre) :
             ~pre[i].active => (forces[i] = zero /\ pedestrians[i] = pre[i])
        /\ AtActive(forces, pre) =
             computeContactForces(SelectSeq(pre, IsActive), environment.walls, params,
                                  environment.bounds, Periodic)
        /\ \A i \in ActiveIn(pedestrians) :
             visionOf(pedestrians[i], pedestrians) =
               visionOf(pedestrians[i],
                        SelectSeq(live, LAMBDA p : p.id # pedestrians[i].id))
        /\ getMetrics(pedestrians, environment, time).pedestrianCount = Len(live)
        /\ getMetrics(pedestrians, environment, time) = getMetrics(live, environment, time)

\* a step taken while an inactive agent's body overlapped an active agent's
C10_Witness ==
  /\ time > 0
  /\ \E i \in 1..Len(pre) : \E j \in ActiveIn(pre) :
       /\ ~pre[i].active
       /\ distance(pre[i].position, pre[j].position) < pre[i].radius + pre[j].radius
       /\ pedestrians[i] = pre[i]

----------------------------------------------------------------------------
\* C11: every pedestrian's radius is mass / 320, at creation and after any
\* steps, callbacks and resets, and a step leaves every mass and radius as
\* it found them.
C11_RadiusFromMass ==
  /\ \A i \in 1..Len(pedestrians) :
       pedestrians[i].radius = Div(pedestrians[i].mass, 320 * Scale)
  /\ time > 0 =>
       /\ Len(pedestrians) = Len(pre)
       /\ \A i \in 1..Len(pre) :
            /\ pedestrians[i].mass = pre[i].mass
            /\ pedestrians[i].radius = pre[i].radius

\* a step in which a body of other than 80 kg was pushed by a contact force
C11_Witness ==
  /\ time > 0
  /\ \E i \in 1..Len(pre) :
       /\ forces[i] # zero
       /\ pre[i].mass # 8000
       /\ pedestrians[i].velocity # pre[i].velocity
       /\ pedestrians[i].radius = Div(pre[i].mass, 320 * Scale)

\* C12: the pedestrians of the simulation's list have pairwise distinct ids,
\* every id in the list is below the id counter, and a step leaves every
\* agent's id as it found it; through any steps and scenario resets.
C12_IdsDistinct ==
  /\ \A i, j \in 1..Len(pedestrians) :
       i # j => pedestrians[i].id # pedestrians[j].id
  /\ \A i \in 1..Len(pedestrians) : pedestrians[i].id < nextId
  /\ time > 0 =>
       /\ Len(pedestrians) = Len(pre)
       /\ \A i \in 1..Len(pre) : pedestrians[i].id = pre[i].id

\* a step of three agents in which one of them was deactivated by a callback
C12_Witness ==
  /\ time > 0
  /\ Len(pedestrians) = 3
  /\ \E i \in 1..Len(pre) : pre[i].active /\ ~pedestrians[i].active
  /\ {pedestrians[i].id : i \in 1..Len(pedestrians)} = {0, 1, 2}

\* C13: every pedestrian created has a desired speed of at least 0.5 m/s,
\* whether the speed was sampled or given by the caller.
C13_DesiredSpeedFloor ==
  \A i \in 1..Len(pedestrians) : pedestrians[i].desiredSpeed >= 50

----------------------------------------------------------------------------
\* the list createPedestriansInArea has built so far
Placed == placement.pedestrians

\* C14: no two agents of one createPedestriansInArea result are closer than
\* the sum of the radii they carry plus the 0.05 m margin.
C14_NoOverlapWithinMargin ==
  \A i, j \in 1..Len(Placed) :
    i # j => distance(Placed[i].position, Placed[j].position)
               >= Placed[i].radius + Placed[j].radius + 5

\* C15: createPedestriansInArea makes at most count * 100 attempts, holds at
\* most count agents, returns only with the list full or the attempts used
\* up, and does return.
C15_BoundedPlacement ==
  /\ [](/\ placement.attempts <= placement.count * 100
        /\ Len(Placed) <= placement.count
        /\ placement.returned =>
             \/ Len(Placed) = placement.count
             \/ placement.attempts = placement.count * 100)
  /\ <>placement.returned

\* a call that returned fewer agents than asked for after count * 100 attempts
C15_Witness ==
  /\ placement.returned
  /\ placement.count = 2
  /\ Len(Placed) = 1
  /\ placement.attempts = 200

----------------------------------------------------------------------------
\* dt, tau, phi and dMax positive and no wall with coincident endpoints
ValidConfiguration ==
  /\ params.dt > 0
  /\ params.tau > 0
  /\ params.phi > 0
  /\ params.dMax > 0
  /\ \A w \in 1..Len(environment.walls) :
       environment.walls[w].start # environment.walls[w].end

\* C16: no step is ever run by a simulation whose dt, tau, phi or dMax is not
\* positive or which holds a wall with coincident endpoints.
C16_InvalidConfigRejected ==
  pre # <<>> => ValidConfiguration

----------------------------------------------------------------------------
\* C17: a step advances time by dt once; after it every registered callback
\* has been called once, in registration order, each handed the advanced time
\* and the positions and velocities the step produced, the first of them the
\* list exactly as the update loop left it.
C17_TimeThenHooks ==
  /\ [](time > 0 =>
          /\ Len(hookLog) = Len(callbacks)
          /\ \A c \in 1..Len(callbacks) :
               /\ hookLog[c].hook = callbacks[c]
               /\ hookLog[c].time = time
               /\ \A i \in 1..Len(pedestrians) :
                    /\ hookLog[c].pedestrians[i].position = pedestrians[i].position
                    /\ hookLog[c].pedestrians[i].velocity = pedestrians[i].velocity
          /\ Len(callbacks) > 0 =>
               hookLog[1].pedestrians =
                 updateLoop(1, pre, <<>>, forces, environment, params).pedestrians)
  /\ [][pre' # <<>> => time' = time + params.dt]_vars

\* a step with two callbacks, the first of which deactivated an agent that
\* the second then saw inactive
C17_Witness ==
  /\ time > 0
  /\ Len(hookLog) = 2
  /\ hookLog[2].hook = "observer"
  /\ \E i \in 1..Len(pedestrians) :
       /\ hookLog[1].pedestrians[i].active
       /\ ~hookLog[2].pedestrians[i].active

----------------------------------------------------------------------------
\* C18: a parameter edit made through the controls between two steps takes
\* effect in the next step: the params a step has read are the params the
\* controls hold, also after a scenario switch.
C18_ControlEditsReachStep == pre # <<>> => params = controls

----------------------------------------------------------------------------
\* the pedestrians and time a step leaves, taken from the list before it with
\* the scenario's private counter at c
Replayed(c) ==
  stepResult(pre, environment, params, callbacks, c, time - params.dt)

SameOutcome(r) ==
  /\ r.time = time
  /\ Len(r.pedestrians) = Len(pedestrians)
  /\ \A i \in 1..Len(pedestrians) :
       /\ r.pedestrians[i].position = pedestrians[i].position
       /\ r.pedestrians[i].velocity = pedestrians[i].velocity
       /\ r.pedestrians[i].active = pedestrians[i].active

----------------------------------------------------------------------------
\* the periodic flag step() passes on
IsPeriodic == environment.boundaryType = "periodic"

\* pedestrian i was, in the step just taken, the only active agent, free of
\* contact, its destination more than 0.1 away along the heading used, with
\* the full horizon free in that direction and a horizon that allows the
\* desired speed
Unobstructed(i) ==
  /\ pre # <<>>
  /\ i \in 1..Len(pre)
  /\ pre[i].active
  /\ \A j \in 1..Len(pre) : j # i => ~pre[j].active
  /\ forces[i] = zero
  /\ distance(pre[i].destination, pre[i].position) > 10
  /\ headings[i] = <<angle(sub(pre[i].destination, pre[i].position))>>
  /\ visionDistance(pre[i], pre, environment.walls, params, environment.bounds,
                    IsPeriodic, headings[i][1], 0) = params.dMax
  /\ Div(params.dMax, params.tau) >= pre[i].desiredSpeed
  /\ 0 < params.dt
  /\ params.dt < params.tau

\* x lies between a and b
Between(x, a, b) == (a <= x /\ x <= b) \/ (b <= x /\ x <= a)

\* one component: the new difference to the desired value is (1 - dt/tau)
\* times the old one, to within one unit of the grid, and the new value lies
\* between the old and the desired one
Relaxed(vOld, vNew, vDes) ==
  /\ Abs((vDes - vNew) * params.tau - (params.tau - params.dt) * (vDes - vOld))
       <= params.tau
  /\ Between(vNew, vOld, vDes)

\* C20: for a single active agent without contacts, with nothing within dMax
\* along its heading, dMax / tau >= desiredSpeed and the destination more
\* than 0.1 away straight ahead, a step multiplies the difference between the
\* velocity and the desired velocity (desiredSpeed along the heading) by
\* (1 - dt/tau); the velocity moves toward the desired velocity without
\* passing it, and a speed not above desiredSpeed stays not above it.
C20_RelaxationTowardDesired ==
  \A i \in 1..Len(pre) :
    Unobstructed(i) =>
      \E vDes \in {fromAngle(headings[i][1], pre[i].desiredSpeed)} :
        /\ Relaxed(pre[i].velocity.x, pedestrians[i].velocity.x, vDes.x)
        /\ Relaxed(pre[i].velocity.y, pedestrians[i].velocity.y, vDes.y)
        /\ length(sub(vDes, pedestrians[i].velocity))
             <= length(sub(vDes, pre[i].velocity))
        /\ length(pre[i].velocity) <= pre[i].desiredSpeed
             => length(pedestrians[i].velocity) <= pre[i].desiredSpeed

\* the second step of such an agent started from rest: its speed has risen
\* in both steps and is still below the desired speed
C20_Witness ==
  /\ time = 2 * params.dt
  /\ Unobstructed(1)
  /\ length(pre[1].velocity) > 0
  /\ length(pedestrians[1].velocity) > length(pre[1].velocity)
  /\ length(pedestrians[1].velocity) < pre[1].desiredSpeed

----------------------------------------------------------------------------
\* C21: the vision of every agent in a step reads the pre-step positions and
\* velocities of all other agents: the velocity the step gives an agent is the
\* one steered from the list as it was when the step began.
C21_VisionReadsPreStep ==
  pre # <<>> =>
    \A i \in ActiveIn(pre) :
      pedestrians[i].velocity =
        accelerate(pre[i], forces[i], params,
                   steer(pre[i], pre, environment, params, headings[i][1]))

----------------------------------------------------------------------------
\* the ray of a collisionDistanceWall call against the wall's supporting line,
\* ped.position + t * vDir = wall.start + s * (wall.end - wall.start): t is the
\* distance along the unit direction vDir, s the fraction of the segment, so
\* the segment itself is 0 <= s <= 1
WallRay ==
  LET vDir == normalize(probe.vCandidate)
      segDir == sub(probe.wall.end, probe.wall.start)
      toStart == sub(probe.wall.start, probe.ped.position)
      cross == Mul(vDir.x, segDir.y) - Mul(vDir.y, segDir.x)
  IN  [speed |-> length(probe.vCandidate),
       segLen |-> length(segDir),
       cross |-> cross,
       t |-> IF cross = 0 THEN 0
             ELSE Div(Mul(toStart.x, segDir.y) - Mul(toStart.y, segDir.x), cross),
       s |-> IF cross = 0 THEN 0
             ELSE Div(Mul(toStart.x, vDir.y) - Mul(toStart.y, vDir.x), cross)]

\* a call with a moving candidate, a wall of positive length and a ray that
\* is not parallel to it
WallRayCrosses(ray) ==
  /\ probe.fn = "collisionDistanceWall"
  /\ ray.speed > 0
  /\ ray.segLen > 0
  /\ ray.cross # 0

ClearOfEndpoints ==
  /\ distance(probe.ped.position, probe.wall.start) > probe.ped.radius
  /\ distance(probe.ped.position, probe.wall.end) > probe.ped.radius

\* C22: a candidate ray that meets the wall's supporting line outside the
\* segment (before its start or beyond its end) gives d_max for that wall
\* when the agent is farther than its radius from both endpoints, whatever
\* the length of the wall.
C22_OutsideSegmentRejected ==
  probe.fn = "collisionDistanceWall" =>
    \A ray \in {WallRay} :
      (WallRayCrosses(ray) /\ (ray.s < 0 \/ ray.s > Scale) /\ ClearOfEndpoints)
        => probe.result = probe.dMax

----------------------------------------------------------------------------
\* C23: when the candidate ray hits the wall segment, the agent-wall distance
\* is the distance from the agent's centre to the intersection point less the
\* radius, floored at 0 and capped at d_max (and so the same for every
\* non-zero speed of the candidate).
C23_GeometricHitDistance ==
  probe.fn = "collisionDistanceWall" =>
    \A ray \in {WallRay} :
      (/\ WallRayCrosses(ray)
       /\ ray.t >= 0
       /\ 0 <= ray.s
       /\ ray.s <= Scale
       /\ ray.s <= ray.segLen)
        => probe.result = Min2(Max2(0, ray.t - probe.ped.radius), probe.dMax)

----------------------------------------------------------------------------
\* the candidate velocity equals the other agent's velocity
ZeroRelativeSpeed ==
  /\ probe.fn = "collisionDistancePedestrian"
  /\ ProbeRelativeVelocity = zero

\* the candidate direction points toward the other agent
CandidateApproaches ==
  probe.vCandidate.x * ProbeDx + probe.vCandidate.y * ProbeDy > 0

\* C24 as stated: with zero relative speed the agent-agent distance is 0 if
\* the two agents overlap and d_max otherwise, for every candidate direction.
C24_ZeroRelativeSpeed ==
  ZeroRelativeSpeed => probe.result = IF ProbeOverlapping THEN 0 ELSE probe.dMax

\* C24 as the code has it: with zero relative speed the agent-agent distance
\* is d_max when the two agents do not overlap; when they overlap the overlap
\* test comes first and the distance is 0 only for a candidate direction that
\* points toward the other agent, and d_max for every other direction.
C24_ZeroRelativeSpeedAfterOverlap ==
  ZeroRelativeSpeed =>
    probe.result = IF ProbeOverlapping /\ CandidateApproaches THEN 0 ELSE probe.dMax

\* an overlapping pair moving together, the candidate pointing away from the
\* other agent: the distance is d_max
C24_Witness ==
  /\ ZeroRelativeSpeed
  /\ ProbeOverlapping
  /\ probe.vCandidate # zero
  /\ (ProbeDx # 0 \/ ProbeDy # 0)
  /\ ~CandidateApproaches
  /\ probe.result = probe.dMax

----------------------------------------------------------------------------
\* C25: computeVision returns as many distances as angles, and the angles
\* ascend from -phi in steps of angularResolution, reach phi and never leave
\* [-phi, phi], also when 2 * phi is not a multiple of angularResolution.
C25_AnglesWithinFieldOfView ==
  probe.fn = "computeVision" =>
    \E angles \in {probe.result.angles} :
      /\ Len(angles) = Len(probe.result.distances)
      /\ Len(angles) >= 1
      /\ angles[1] = -probe.params.phi
      /\ \A k \in 1..(Len(angles) - 1) :
           angles[k + 1] = angles[k] + probe.params.angularResolution
      /\ angles[Len(angles)] = probe.params.phi
      /\ \A k \in 1..Len(angles) :
           -probe.params.phi <= angles[k] /\ angles[k] <= probe.params.phi

----------------------------------------------------------------------------
\* radius - distance to the wall segment
WallOverlap(ped, wall) ==
  ped.radius - distance(ped.position,
                        closestPointOnSegment(ped.position, wall.start, wall.end))

\* the wall's unit normal (a, b), turned to the side of the line the agent is on
SideNormal(ped, wall) ==
  IF Mul(wall.a, ped.position.x) + Mul(wall.b, ped.position.y) + wall.c >= 0
  THEN Vec(wall.a, wall.b)
  ELSE Vec(-wall.a, -wall.b)

\* the closest point of the wall to the agent is an endpoint, and the agent
\* is not straight above it: the line from the endpoint to the agent is not
\* perpendicular to the wall
BesideEndpoint(ped, wall) ==
  \E closest \in {closestPointOnSegment(ped.position, wall.start, wall.end)} :
    /\ closest \in {wall.start, wall.end}
    /\ (ped.position.x - closest.x) * (wall.end.x - wall.start.x)
         + (ped.position.y - closest.y) * (wall.end.y - wall.start.y) # 0

\* the unit vector from the closest point of the wall to the agent
FromClosestPoint(ped, wall) ==
  \* (a, b) when the agent's centre lies on the wall
  LET toPoint == sub(ped.position,
                     closestPointOnSegment(ped.position, wall.start, wall.end))
  IN  IF toPoint = zero THEN Vec(wall.a, wall.b)
      ELSE scaleInv(toPoint, length(toPoint))

\* k * overlap along the wall's normal on the agent's side
NormalWallForce(ped, wall) ==
  IF WallOverlap(ped, wall) > 0
  THEN scale(SideNormal(ped, wall), Mul(params.k, WallOverlap(ped, wall)))
  ELSE zero

\* k * overlap along the wall's normal on the agent's side, and where the
\* closest point is an endpoint along the line from that endpoint to the agent
ClosestPointWallForce(ped, wall) ==
  IF WallOverlap(ped, wall) > 0
  THEN scale(IF closestPointOnSegment(ped.position, wall.start, wall.end)
                    \in {wall.start, wall.end}
             THEN FromClosestPoint(ped, wall)
             ELSE SideNormal(ped, wall),
             Mul(params.k, WallOverlap(ped, wall)))
  ELSE zero

\* no other active agent of the pre-step list touches agent i
FreeOfAgents(i) ==
  \A j \in ActiveIn(pre) \ {i} :
    length(CentreDelta(pre[i], pre[j])) >= pre[i].radius + pre[j].radius

\* every wall has two distinct endpoints
ProperWalls ==
  \A w \in 1..Len(environment.walls) :
    environment.walls[w].start # environment.walls[w].end

----------------------------------------------------------------------------
\* the list as it stood when agent i's turn came in the step just taken:
\* the agents before it already advanced, the others as the step found them
AtTurn(i) ==
  [j \in 1..Len(pre) |->
     IF j < i THEN [pedestrians[j] EXCEPT !.active = pre[j].active] ELSE pre[j]]

\* the polar vector (heading + alphaDes, speedDes) of agent i in that step
DesiredVelocityOf(i) ==
  \* computeVision and computeDesiredVelocity on the list at the agent's turn
  LET vision == computeVision(pre[i], AtTurn(i), environment.walls, params,
                              environment.bounds, Periodic, headings[i][1])
      des == computeDesiredVelocity(pre[i].desiredSpeed, vision.angles,
                                    vision.distances, params)
  IN  fromAngle(headings[i][1] + des.alphaDes, des.speedDes)

\* v + ((vDes - v) / tau + F / mass) * dt
EulerVelocity(v, vDes, F, mass) ==
  add(v, scale(add(scaleInv(sub(vDes, v), params.tau), scaleInv(F, mass)), params.dt))

\* x + v * dt, brought back into the bounds under periodic boundaries
EulerPosition(x, v) ==
  IF Periodic THEN wrapPosition(add(x, scale(v, params.dt)), environment.bounds)
  ELSE add(x, scale(v, params.dt))

\* C27: for every active agent one step sets
\* v' = v + ((vDes - v)/tau + F/mass)*dt, F being its contact force computed
\* at the start of the step and vDes the polar vector (heading + alphaDes,
\* speedDes), and then x' = x + v'*dt with the velocity already updated (the
\* periodic wrap applied to the result).
C27_ExplicitEuler ==
  time > 0 =>
    \A i \in ActiveIn(pre) :
      \E vNew \in {EulerVelocity(pre[i].velocity, DesiredVelocityOf(i), forces[i],
                                 pre[i].mass)} :
        /\ pedestrians[i].velocity = vNew
        /\ pedestrians[i].position = EulerPosition(pre[i].position, vNew)

\* a step in which an agent in contact changed its velocity, so that the old
\* and the new velocity carry it to different places
C27_Witness ==
  /\ time > 0
  /\ \E i \in ActiveIn(pre) :
       /\ forces[i] # zero
       /\ pedestrians[i].velocity # pre[i].velocity
       /\ pedestrians[i].position = EulerPosition(pre[i].position, pedestrians[i].velocity)
       /\ pedestrians[i].position # EulerPosition(pre[i].position, pre[i].velocity)

----------------------------------------------------------------------------
(* The divisions of step() and getMetrics() whose denominator comes from   *)
(* a pedestrian or the environment, called directly.  A JavaScript number  *)
(* is kept with a flag: finite is FALSE for Infinity, -Infinity and NaN,   *)
(* which is what a division by zero gives.                                 *)

\* n / d on numbers
divide(n, d) ==
  IF d = 0 THEN [finite |-> FALSE, value |-> 0]
  ELSE [finite |-> TRUE, value |-> Div(n, d)]

\* step(): contactAccel = vec2.scale(forces[i], 1 / ped.mass); 1 / 0 is
\* Infinity and every product with it is Infinity, -Infinity or NaN
contactAccel(force, mass) ==
  [finite |-> divide(Scale, mass).finite,
   value |-> IF mass = 0 THEN zero ELSE scaleInv(force, mass)]

\* getMetrics(): occupancy = bodyArea / area
occupancy(radii, bounds) ==
  divide(SumVec([i \in 1..Len(radii) |-> Vec(Mul(Mul(MathPI, radii[i]), radii[i]), 0)]).x,
         Mul(bounds.xMax - bounds.xMin, bounds.yMax - bounds.yMin))

\* contact forces and masses of a pedestrian, createPedestrian({ mass: 0 }) included
DivisionForces == {Vec(x, y) : x \in {-75000, 0, 15000}, y \in {-75000, 0, 15000}}

DivisionMasses == {0, 6000, 6400, 8000, 9600, 10000}

\* bounds of a scenario, a rectangle of no width and one of no height included
DivisionBounds ==
  { scenarioBounds,
    [xMin |-> 0, xMax |-> 0, yMin |-> -100, yMax |-> 100],
    [xMin |-> -200, xMax |-> 200, yMin |-> 50, yMax |-> 50],
    [xMin |-> -500, xMax |-> 500, yMin |-> -200, yMax |-> 200] }

DivisionRadii == {<<>>} \cup {<<r>> : r \in {0, 20, 25, 30}}
                   \cup {<<r, s>> : r, s \in {0, 20, 25, 30}}

ProbeContactAccel ==
  /\ probe = noProbe
  /\ \E force \in DivisionForces, mass \in DivisionMasses :
       probe' = [fn |-> "contactAccel", force |-> force, mass |-> mass,
                 result |-> contactAccel(force, mass)]
  /\ UNCHANGED simVars

ProbeOccupancy ==
  /\ probe = noProbe
  /\ \E radii \in DivisionRadii, bounds \in DivisionBounds :
       probe' = [fn |-> "occupancy", radii |-> radii, bounds |-> bounds,
                 result |-> occupancy(radii, bounds)]
  /\ UNCHANGED simVars

NextDivisions == ProbeContactAccel \/ ProbeOccupancy

SpecDivisions == InitEmpty /\ [][NextDivisions]_vars

\* C28: with valid params no division of step() or getMetrics() has a zero
\* denominator left unguarded: the contact acceleration of any pedestrian
\* (one of mass 0 included) and the occupancy of any bounds (of zero area
\* included) are finite numbers.
C28_DivisionsGuarded ==
  probe.fn \in {"contactAccel", "occupancy"} => probe.result.finite

----------------------------------------------------------------------------
\* the run is one of the Evacuation scenario
IsEvacuation == callbacks # <<>> /\ callbacks[1] = "evacuation"

InactiveIn(peds) == {i \in 1..Len(peds) : ~peds[i].active}

\* C29: in the Evacuation scenario evacuatedCount is the number of inactive
\* pedestrians of the list; it is 0 after create and reset; in a step the
\* agents deactivated are exactly the active ones the hook saw beyond
\* xMax + 0.5, an inactive agent stays inactive (so it is counted once and the
\* counter does not decrease).
C29_EvacuatedCountsInactive ==
  IsEvacuation =>
    /\ evacuatedCount = Cardinality(InactiveIn(pedestrians))
    /\ pre = <<>> => evacuatedCount = 0
    /\ pre # <<>> =>
         /\ InactiveIn(pre) \subseteq InactiveIn(pedestrians)
         /\ evacuatedCount >= Cardinality(InactiveIn(pre))
         /\ \A i \in ActiveIn(pre) :
              ~pedestrians[i].active
                <=> hookLog[1].pedestrians[i].position.x > environment.bounds.xMax + 50

\* two agents counted, one in an earlier step and one in the step just taken
C29_Witness ==
  /\ IsEvacuation
  /\ evacuatedCount = 2
  /\ Cardinality(InactiveIn(pre)) = 1
  /\ Cardinality(InactiveIn(pedestrians)) = 2

----------------------------------------------------------------------------
\* how often hook appears among the callbacks invoked in the last step
Invocations(hook) == Cardinality({k \in 1..Len(hookLog) : hookLog[k].hook = hook})

\* C30: a reset leaves the list holding only the pedestrians placed anew and
\* time at 0, and leaves params, environment and the registered hooks as they
\* were; in every step, also after resets, each registered hook is invoked
\* exactly once.
C30_ResetKeepsHooks ==
  /\ [][pre' = <<>> =>
          /\ time' = 0
          /\ params' = params
          /\ environment' = environment
          /\ callbacks' = callbacks
          /\ Len(pedestrians') = Len(pedestrians)
          /\ \A i \in 1..Len(pedestrians') :
               pedestrians'[i].id = resetPedestrianIds + i - 1 /\ pedestrians'[i].active
       ]_vars
  /\ [](time > 0 =>
          /\ Len(hookLog) = Len(callbacks)
          /\ \A c \in 1..Len(callbacks) : Invocations(callbacks[c]) = 1)

\* a step taken after Scenario.reset in a scenario with a hook
C30_Witness ==
  /\ probe = [fn |-> "Scenario.reset"]
  /\ time > 0
  /\ callbacks # <<>>
  /\ Invocations(callbacks[1]) = 1

====
